---- MODULE Spec2Model ----
(***************************************************************************)
(* Progress hub (app/progress_tracker.py), plan pipeline with progress     *)
(* (create_plan_with_progress) and SSE stream adapter (stream_progress)    *)
(* of app/api/plan_with_progress.py, reach analytics and budget scaling    *)
(* (app/utils/analytics.py).                                               *)
(***************************************************************************)
EXTENDS Integers, Sequences, FiniteSets, TLC

\* ------------------------------------------------------------------ bounds
NumSessions == 2
NumAdapters == 2
MaxReachLen == 4
MaxBudget == 3
MaxHubUpdates == 2

Sessions == 1..NumSessions
Adapters == 1..NumAdapters

\* ------------------------------------------------------- program constants
total_steps == 8
max_keep_alives == 5
maxsize == 0

VARIABLES
    progress_data,     \* ProgressTracker.progress_data : session -> latest update
    subscribers,       \* ProgressTracker.subscribers   : session -> adapter owning the queue, 0 = absent
    queue,             \* the asyncio.Queue object each stream_progress call created
    opc,               \* position of create_plan_with_progress
    ostep,             \* step the pipeline is at (1..8)
    osid,              \* session_id of the run
    apc,               \* position of each stream_progress / event_generator ("off": no request)
    asid,              \* session_id of each stream_progress call
    scenario,          \* index of the scenario the analytics loop is at, 0 = not in the loop
    reach_string,      \* scenario_perf['reach'] of that scenario, a list of characters
    reach_analytics,   \* result of calculate_reach_percentage for that scenario
    location,          \* profile.location, a list of characters
    is_local,          \* profile.is_local
    scenario_budget,   \* scenarios_dict[...]['total_budget'] of that scenario, a float in halves
    budget_scaling,    \* result of calculate_budget_scaling for that scenario
    scenarios_dict,    \* total_budget of the plan of each scenario, in halves
    performance_dict,  \* performance.model_dump(), which the analytics loop fills in
    performance,       \* the PerformanceSet that goes into the result
    subAt,             \* history: number of updates published before the adapter subscribed
    subNo,             \* history: ordinal of the adapter's subscribe call, 0 = none yet
    keep_alive_count,  \* event_generator local
    published,         \* history: updates passed to update_progress in the run
    invoked,           \* history: collaborators invoked, in order
    failedStep,        \* history: step whose collaborator raised, 0 = none
    exc,               \* str(e) of the exception the except clause caught, "" = none
    dropped,           \* history: updates published while no queue was registered
    accepted,          \* history: updates published while the adapter's queue was registered
    forwarded,         \* history: progress events the adapter yielded to the transport
    lastYield,         \* history: kind of the last item the adapter yielded
    idleRun,           \* history: idle timeouts since the adapter last received an event
    closedBy           \* history: why the adapter's stream ended

vars == <<progress_data, subscribers, queue, opc, ostep, osid, apc, asid,
          keep_alive_count, published, invoked, failedStep, accepted,
          forwarded, lastYield, idleRun, closedBy, exc, dropped, subAt, subNo,
          scenario, reach_string, reach_analytics, location, is_local,
          scenario_budget, budget_scaling, scenarios_dict, performance_dict,
          performance>>

hubVars  == <<progress_data, subscribers, queue>>
anaVars  == <<scenario, reach_string, reach_analytics, location, is_local,
              scenario_budget, budget_scaling, scenarios_dict, performance_dict,
              performance>>
orchVars == <<opc, ostep, osid, published, invoked, failedStep, exc, dropped, anaVars>>
adptVars == <<apc, asid, subAt, subNo, keep_alive_count, forwarded, lastYield, idleRun, closedBy>>

\* ---------------------------------------------------------------- helpers
Last(s) == s[Len(s)]

AgentName(i) ==
    <<"RAGAgent", "PersonaAgent", "LocationAgent", "CompetitorAgent",
      "PlannerAgent", "CreativeAgent", "PerformanceAgent", "CriticAgent">>[i]

\* the message literals of create_plan_with_progress, as lists of parts
StepMessage(i) ==
    <<"Retrieving historical insights from vector database...",
      "Generating 3 detailed customer personas...",
      "Analyzing location demographics and optimal radius...",
      "Researching competitors and market opportunities...",
      "Creating 3 budget scenarios with channel allocation...",
      "Generating creative assets and ad copy...",
      "Predicting performance metrics and ROI...",
      "Evaluating plan quality and scoring...">>[i]

DoneMessage == <<"Marketing plan generation complete!">>

\* f"Error: {str(e)}"
ErrorMessage(e) == <<"Error: ", e>>

\* str(e) of the exceptions a collaborator or a store may raise
ExcMessages == {"connection refused", "invalid JSON"}

\* int((step / total_steps) * 100)
ProgressPercent(step, total) == (step * 100) \div total

MkUpdate(step, total, agent_name, status, message) ==
    [step |-> step, total_steps |-> total,
     progress_percent |-> ProgressPercent(step, total),
     agent_name |-> agent_name, status |-> status, message |-> message]

NoUpdate == [step |-> 0, total_steps |-> 0, progress_percent |-> 0,
             agent_name |-> "", status |-> "none", message |-> <<>>]

\* --------------------------------------------------------- asyncio.Queue
full_SingleSlot(q) == Len(q) >= 1

full(q) == IF maxsize <= 0 THEN FALSE ELSE Len(q) >= maxsize

put_Replace(q, item) == <<item>>

put(q, item) == Append(q, item)

\* ------------------------------------------------------- ProgressTracker
subscribe_Replay(a, s) ==
    /\ queue' = [queue EXCEPT ![a] = IF progress_data[s] = NoUpdate
                                      THEN <<>> ELSE <<progress_data[s]>>]
    /\ subscribers' = [subscribers EXCEPT ![s] = a]

subscribe_KeepFirst(a, s) ==
    /\ queue' = [queue EXCEPT ![a] = <<>>]
    /\ subscribers' = IF subscribers[s] # 0 THEN subscribers
                      ELSE [subscribers EXCEPT ![s] = a]

subscribe(a, s) ==
    /\ queue' = [queue EXCEPT ![a] = <<>>]
    /\ subscribers' = [subscribers EXCEPT ![s] = a]

unsubscribe_All(s) ==
    subscribers' = [t \in Sessions |-> 0]

unsubscribe(s) ==
    subscribers' = IF subscribers[s] # 0
                   THEN [subscribers EXCEPT ![s] = 0]
                   ELSE subscribers

update_progress_SkipSnapshot(s, step, total, agent_name, status, message) ==
    LET update == MkUpdate(step, total, agent_name, status, message) IN
    /\ IF subscribers[s] # 0
       THEN /\ progress_data' = [progress_data EXCEPT ![s] = update]
            /\ queue' = [queue EXCEPT ![subscribers[s]] = put(@, update)]
       ELSE UNCHANGED <<progress_data, queue>>
    /\ UNCHANGED subscribers

update_progress_NeedsSubscriber(s, step, total, agent_name, status, message) ==
    LET update == MkUpdate(step, total, agent_name, status, message) IN
    /\ progress_data' = [progress_data EXCEPT ![s] = update]
    /\ subscribers[s] # 0
    /\ queue' = [queue EXCEPT ![subscribers[s]] = put(@, update)]
    /\ UNCHANGED subscribers

update_progress(s, step, total, agent_name, status, message) ==
    LET update == MkUpdate(step, total, agent_name, status, message) IN
    /\ progress_data' = [progress_data EXCEPT ![s] = update]
    /\ IF subscribers[s] # 0
       THEN /\ ~full(queue[subscribers[s]])
            /\ queue' = [queue EXCEPT ![subscribers[s]] = put(@, update)]
       ELSE UNCHANGED queue
    /\ UNCHANGED subscribers

get_progress(s) == progress_data[s]

\* history kept beside update_progress
Publish(s, step, agent_name, status, message) ==
    LET update == MkUpdate(step, total_steps, agent_name, status, message) IN
    /\ update_progress(s, step, total_steps, agent_name, status, message)
    /\ published' = Append(published, update)
    /\ dropped' = IF subscribers[s] = 0 THEN dropped \cup {update} ELSE dropped
    /\ accepted' = [a \in Adapters |->
                      IF subscribers[s] = a THEN Append(accepted[a], update)
                      ELSE accepted[a]]

\* ------------------------------------------- calculate_reach_percentage
\* characters a reach text is made of here: digits, the comma and one
\* character that is neither
ReachChars == {"0", "1", "2", ",", "-"}

IsDigit(c) == c \in {"0", "1", "2", "3", "4", "5", "6", "7", "8", "9"}

DigitValue(c) ==
    CASE c = "0" -> 0 [] c = "1" -> 1 [] c = "2" -> 2 [] c = "3" -> 3
      [] c = "4" -> 4 [] c = "5" -> 5 [] c = "6" -> 6 [] c = "7" -> 7
      [] c = "8" -> 8 [] c = "9" -> 9

\* the character class [\d,]
IsTokenChar(c) == IsDigit(c) \/ c = ","

\* re.findall(r'[\d,]+', text): the maximal runs of token characters, left
\* to right; cur is the run being read
RECURSIVE FindAllFrom(_, _, _)
FindAllFrom(text, i, cur) ==
    IF i > Len(text)
    THEN IF cur = <<>> THEN <<>> ELSE <<cur>>
    ELSE IF IsTokenChar(text[i])
         THEN FindAllFrom(text, i + 1, Append(cur, text[i]))
         ELSE IF cur = <<>>
              THEN FindAllFrom(text, i + 1, <<>>)
              ELSE <<cur>> \o FindAllFrom(text, i + 1, <<>>)

FindAll(text) == FindAllFrom(text, 1, <<>>)

\* token.replace(',', '')
RemoveCommas(token) == SelectSeq(token, LAMBDA c : c # ",")

\* int(digits) raises ValueError on the empty string
IntRaises(digits) == digits = <<>>

RECURSIVE IntOf(_)
IntOf(digits) ==
    IF digits = <<>> THEN 0
    ELSE 10 * IntOf(SubSeq(digits, 1, Len(digits) - 1)) + DigitValue(digits[Len(digits)])

NoResult == [kind |-> "none"]

ValueError == [kind |-> "ValueError"]

ZeroDivisionError == [kind |-> "ZeroDivisionError"]

\* str.lower() on the letters A..Z; every other character is kept
UpperLetters ==
    <<"A", "B", "C", "D", "E", "F", "G", "H", "I", "J", "K", "L", "M",
      "N", "O", "P", "Q", "R", "S", "T", "U", "V", "W", "X", "Y", "Z">>

LowerLetters ==
    <<"a", "b", "c", "d", "e", "f", "g", "h", "i", "j", "k", "l", "m",
      "n", "o", "p", "q", "r", "s", "t", "u", "v", "w", "x", "y", "z">>

LowerChar(c) ==
    IF \E i \in 1..Len(UpperLetters) : UpperLetters[i] = c
    THEN LowerLetters[CHOOSE i \in 1..Len(UpperLetters) : UpperLetters[i] = c]
    ELSE c

lower(s) == [i \in 1..Len(s) |-> LowerChar(s[i])]

\* the test  city in location_lower
IsSubstring(sub, s) ==
    \E i \in 1..(Len(s) - Len(sub) + 1) : SubSeq(s, i, i + Len(sub) - 1) = sub

\* the dict population_estimates, in insertion order
population_estimates ==
    <<[city |-> <<"n", "e", "w", " ", "y", "o", "r", "k">>, pop |-> 8000000],
      [city |-> <<"l", "o", "s", " ", "a", "n", "g", "e", "l", "e", "s">>, pop |-> 5000000],
      [city |-> <<"c", "h", "i", "c", "a", "g", "o">>, pop |-> 3500000],
      [city |-> <<"s", "a", "n", " ", "f", "r", "a", "n", "c", "i", "s", "c", "o">>, pop |-> 1200000],
      [city |-> <<"s", "e", "a", "t", "t", "l", "e">>, pop |-> 900000],
      [city |-> <<"b", "o", "s", "t", "o", "n">>, pop |-> 800000],
      [city |-> <<"p", "o", "r", "t", "l", "a", "n", "d">>, pop |-> 700000],
      [city |-> <<"d", "e", "n", "v", "e", "r">>, pop |-> 800000],
      [city |-> <<"a", "u", "s", "t", "i", "n">>, pop |-> 1000000],
      [city |-> <<"m", "i", "a", "m", "i">>, pop |-> 900000]>>

default_local_population == 500000
default_national_population == 10000000

\* indices of the table entries whose city is in location.lower()
Matches(loc) ==
    {i \in 1..Len(population_estimates) :
        IsSubstring(population_estimates[i].city, lower(loc))}

MatchPopulation_LastMatch(loc) ==
    LET m == Matches(loc) IN
    IF m = {} THEN 0
    ELSE population_estimates[CHOOSE i \in m : \A j \in m : j <= i].pop

\* the for loop over population_estimates.items() with its break:
\* the population of the first matching entry, 0 standing for None
MatchPopulation(loc) ==
    LET m == Matches(loc) IN
    IF m = {} THEN 0
    ELSE population_estimates[CHOOSE i \in m : \A j \in m : i <= j].pop

\* the default estimates, then int(population * 0.25) for a local business
TargetPopulation(loc, is_loc) ==
    LET matched == MatchPopulation(loc)
        population == IF matched # 0 THEN matched
                      ELSE IF is_loc THEN default_local_population
                           ELSE default_national_population
    IN  IF is_loc THEN population \div 4 ELSE population

\* round() of the quotient n / d >= 0 to a whole number of units, as the set
\* of values it can return.  The quotient is a binary floating-point number:
\* where n / d lies exactly halfway between two units its representation
\* error decides which of the two round() returns
Round(n, d) ==
    LET q == n \div d
        r == n % d
    IN  IF 2 * r > d THEN {q + 1}
        ELSE IF 2 * r < d THEN {q}
             ELSE {q, q + 1}

\* calculate_reach_percentage, as the set of its outcomes: the degenerate
\* dict, a ValueError from int(), or the full dict.  percentage_min and
\* percentage_max are in tenths of a percent (round(x, 1));
\* percentage_display is the pair the f-string shows
calculate_reach_percentage(text, loc, is_loc) ==
    LET numbers == FindAll(text) IN
    IF numbers = <<>>
    THEN {[kind |-> "dict", reach_min |-> 0, reach_max |-> 0,
           percentage |-> "Unknown", population_estimate |-> "Unknown"]}
    ELSE IF IntRaises(RemoveCommas(numbers[1]))
         THEN {ValueError}
         ELSE IF Len(numbers) > 1 /\ IntRaises(RemoveCommas(numbers[2]))
              THEN {ValueError}
              ELSE LET reach_min == IntOf(RemoveCommas(numbers[1]))
                       reach_max == IF Len(numbers) > 1
                                    THEN IntOf(RemoveCommas(numbers[2]))
                                    ELSE reach_min
                       target_population == TargetPopulation(loc, is_loc)
                   IN  {[kind |-> "dict",
                         reach_min |-> reach_min,
                         reach_max |-> reach_max,
                         target_population |-> target_population,
                         percentage_min |-> pmin,
                         percentage_max |-> pmax,
                         percentage_display |-> <<pmin, pmax>>] :
                           <<pmin, pmax>> \in
                               {pp \in Round(reach_min * 1000, target_population)
                                       \X Round(reach_max * 1000, target_population) :
                                   reach_min = reach_max => pp[1] = pp[2]}}

\* ---------------------------------------------- calculate_budget_scaling
\* target_multiplier=2.0 at both call sites
target_multiplier == 2

\* math.pow(2.0, 1.3) = 2.4622888266898326, as the fraction 80017 / 32497:
\* int() and round() of budget * 80017 / 32497 equal those of
\* budget * 2.4622888266898326 for every budget from 0 to 11000
budget_multiplier_num == 80017
budget_multiplier_den == 32497

\* int(x) of a float given in halves: truncation
IntOfHalves(h) == h \div 2

RecommendedBudget_Round(current_budget) ==
    (2 * current_budget * budget_multiplier_num + budget_multiplier_den)
        \div (2 * budget_multiplier_den)

\* int(current_budget * budget_multiplier)
RecommendedBudget(current_budget) ==
    (current_budget * budget_multiplier_num) \div budget_multiplier_den

Positive_Always(x) == TRUE

\* the condition of  ... if x > 0 else 0
Positive(x) == x > 0

DigitChar(d) == <<"0", "1", "2", "3", "4", "5", "6", "7", "8", "9">>[d + 1]

\* f"{n:,}": decimal digits in groups of three separated by commas
RECURSIVE FormatThousands(_)
FormatThousands(n) ==
    IF n < 10 THEN <<DigitChar(n)>>
    ELSE IF n < 100 THEN <<DigitChar(n \div 10), DigitChar(n % 10)>>
    ELSE IF n < 1000
         THEN <<DigitChar(n \div 100), DigitChar((n \div 10) % 10), DigitChar(n % 10)>>
         ELSE FormatThousands(n \div 1000) \o <<",">> \o
              <<DigitChar((n \div 100) % 10), DigitChar((n \div 10) % 10), DigitChar(n % 10)>>

\* f"{lo:,}-{hi:,}"
FormatRange(lo, hi) == FormatThousands(lo) \o <<"-">> \o FormatThousands(hi)

\* calculate_budget_scaling with target_multiplier = 2.0, as the set of its
\* outcomes: the dict, or a ZeroDivisionError from one of its four
\* divisions.  Percentages are in tenths of a percent (round(x, 1)), costs
\* per reach in hundredths (round(x, 2)).  avg2 is twice current_reach_avg;
\* target_reach_avg = int(current_reach_avg * 2.0) = avg2, hence
\* new_cost_per_reach / current_cost_per_reach =
\* recommended_budget / (2 * current_budget)
calculate_budget_scaling(current_budget, current_reach_min, current_reach_max) ==
    LET avg2 == current_reach_min + current_reach_max
        target_reach_min == current_reach_min * target_multiplier
        target_reach_max == current_reach_max * target_multiplier
        target_reach_avg == avg2
        recommended_budget == RecommendedBudget(current_budget)
        has_cur == Positive(avg2)
        has_new == Positive(target_reach_avg)
        has_budget == Positive(current_budget)
        \* current_cost_per_reach > 0
        has_eff == Positive(IF has_cur THEN current_budget ELSE 0)
    IN  IF \/ has_cur /\ avg2 = 0
           \/ has_new /\ target_reach_avg = 0
           \/ has_budget /\ current_budget = 0
           \/ has_eff /\ (IF has_cur THEN current_budget ELSE 0) = 0
        THEN {ZeroDivisionError}
        ELSE {[kind |-> "dict",
               current_budget |-> current_budget,
               recommended_budget |-> recommended_budget,
               budget_increase |-> recommended_budget - current_budget,
               budget_increase_percent |-> r[1],
               current_reach_range |-> FormatRange(current_reach_min, current_reach_max),
               target_reach_range |-> FormatRange(target_reach_min, target_reach_max),
               current_cost_per_reach |-> r[2],
               new_cost_per_reach |-> r[3],
               efficiency_change_percent |-> r[4]] :
                 r \in (IF has_budget
                        THEN Round((recommended_budget - current_budget) * 1000, current_budget)
                        ELSE {0})
                    \X (IF has_cur THEN Round(2 * current_budget * 100, avg2) ELSE {0})
                    \X (IF has_new THEN Round(recommended_budget * 100, target_reach_avg)
                        ELSE {0})
                    \X (IF has_eff
                        THEN Round((recommended_budget - 2 * current_budget) * 1000,
                                   2 * current_budget)
                        ELSE {0})}

\* --------------------------------------------------------- PerformanceSet
ScenarioNames == <<"standard", "aggressive", "experimental">>

ScenarioIds == 1..Len(ScenarioNames)

\* Field(default_factory=dict)
EmptyDict == [kind |-> "empty"]

\* a PerformancePrediction as the performance collaborator returns it
Prediction(reach) ==
    [reach |-> reach, reach_analytics |-> EmptyDict, budget_scaling |-> EmptyDict]

\* the profile, the plans and the predictions before any collaborator ran
NoPlanData ==
    /\ location = <<>>
    /\ is_local = FALSE
    /\ scenario_budget = 0
    /\ budget_scaling = NoResult
    /\ scenarios_dict = [i \in ScenarioIds |-> 0]
    /\ performance_dict = [i \in ScenarioIds |-> Prediction(<<>>)]
    /\ performance = [i \in ScenarioIds |-> Prediction(<<>>)]

\* ------------------------------------------------------------------ Init
Init ==
    /\ progress_data = [s \in Sessions |-> NoUpdate]
    /\ subscribers = [s \in Sessions |-> 0]
    /\ queue = [a \in Adapters |-> <<>>]
    /\ opc = "start"
    /\ ostep = 0
    /\ osid \in Sessions
    /\ apc = [a \in Adapters |-> IF a = 1 THEN "idle" ELSE "off"]
    /\ asid = [a \in Adapters |-> 0]
    /\ keep_alive_count = [a \in Adapters |-> 0]
    /\ published = <<>>
    /\ invoked = <<>>
    /\ failedStep = 0
    /\ exc = ""
    /\ dropped = {}
    /\ scenario = 0
    /\ reach_string = <<>>
    /\ reach_analytics = NoResult
    /\ NoPlanData
    /\ subAt = [a \in Adapters |-> 0]
    /\ subNo = [a \in Adapters |-> 0]
    /\ accepted = [a \in Adapters |-> <<>>]
    /\ forwarded = [a \in Adapters |-> <<>>]
    /\ lastYield = [a \in Adapters |-> "none"]
    /\ idleRun = [a \in Adapters |-> 0]
    /\ closedBy = [a \in Adapters |-> "open"]

\* ------------------------------------------- create_plan_with_progress
\* session lookup / creation and profile storage before step 1
SetupOk ==
    /\ opc = "start"
    /\ opc' = "publish"
    /\ ostep' = 1
    /\ UNCHANGED <<hubVars, osid, anaVars, published, invoked, failedStep, exc, dropped, accepted, adptVars>>

SetupRaises ==
    /\ opc = "start"
    /\ opc' = "except"
    /\ exc' \in ExcMessages
    /\ UNCHANGED <<hubVars, ostep, osid, anaVars, published, invoked, failedStep, dropped, accepted, adptVars>>

PublishRunning_Silent ==
    /\ opc = "publish"
    /\ opc' = "invoke"
    /\ UNCHANGED <<hubVars, ostep, osid, anaVars, published, invoked, failedStep, exc,
                   dropped, accepted, adptVars>>

\* "running" update published before the collaborator of step ostep is awaited
PublishRunning ==
    /\ opc = "publish"
    /\ Publish(osid, ostep, AgentName(ostep), "running", <<StepMessage(ostep)>>)
    /\ opc' = "invoke"
    /\ UNCHANGED <<ostep, osid, anaVars, invoked, failedStep, exc, adptVars>>

\* where the pipeline goes after the collaborator of step i returned
AfterStep(i) ==
    IF i = 7 THEN "analytics" ELSE IF i = total_steps THEN "complete" ELSE "publish"

CollaboratorReturns_SkipNext ==
    /\ opc = "invoke"
    /\ invoked' = Append(invoked, ostep)
    /\ opc' = AfterStep(IF ostep < 6 THEN ostep + 1 ELSE ostep)
    /\ ostep' = IF ostep < 6 THEN ostep + 2
                ELSE IF AfterStep(ostep) = "complete" THEN ostep ELSE ostep + 1
    /\ UNCHANGED <<hubVars, osid, anaVars, published, failedStep, exc, dropped, accepted, adptVars>>

CollaboratorReturns ==
    /\ opc = "invoke"
    /\ invoked' = Append(invoked, ostep)
    /\ opc' = AfterStep(ostep)
    /\ ostep' = IF AfterStep(ostep) = "complete" THEN ostep ELSE ostep + 1
    /\ UNCHANGED <<hubVars, osid, anaVars, published, failedStep, exc, dropped, accepted, adptVars>>

CollaboratorRaises_Skip ==
    /\ opc = "invoke"
    /\ invoked' = Append(invoked, ostep)
    /\ failedStep' = IF failedStep = 0 THEN ostep ELSE failedStep
    /\ exc' \in ExcMessages
    /\ opc' = IF ostep = total_steps THEN "except" ELSE "publish"
    /\ ostep' = IF ostep = total_steps THEN ostep ELSE ostep + 1
    /\ UNCHANGED <<hubVars, osid, anaVars, published, dropped, accepted, adptVars>>

\* the awaited collaborator raises: control goes to the except clause
CollaboratorRaises ==
    /\ opc = "invoke"
    /\ invoked' = Append(invoked, ostep)
    /\ failedStep' = ostep
    /\ exc' \in ExcMessages
    /\ opc' = "except"
    /\ UNCHANGED <<hubVars, ostep, osid, anaVars, published, dropped, accepted, adptVars>>

\* reach analytics, budget scaling and PerformanceSet reconstruction
AnalyticsOk ==
    /\ opc = "analytics"
    /\ opc' = "publish"
    /\ UNCHANGED <<hubVars, ostep, osid, anaVars, published, invoked, failedStep, exc, dropped, accepted, adptVars>>

AnalyticsRaises ==
    /\ opc = "analytics"
    /\ opc' = "except"
    /\ exc' \in ExcMessages
    /\ UNCHANGED <<hubVars, ostep, osid, anaVars, published, invoked, failedStep, dropped, accepted, adptVars>>

\* "Mark as complete"
PublishDone ==
    /\ opc = "complete"
    /\ Publish(osid, total_steps, "Complete", "done", DoneMessage)
    /\ opc' = "store"
    /\ UNCHANGED <<ostep, osid, anaVars, invoked, failedStep, exc, adptVars>>

\* result assembly, sqlite_memory.save_plan, vector_memory.store_plan, return
StoreOk ==
    /\ opc = "store"
    /\ opc' = "returned"
    /\ UNCHANGED <<hubVars, ostep, osid, anaVars, published, invoked, failedStep, exc, dropped, accepted, adptVars>>

StoreRaises ==
    /\ opc = "store"
    /\ opc' = "except"
    /\ exc' \in ExcMessages
    /\ UNCHANGED <<hubVars, ostep, osid, anaVars, published, invoked, failedStep, dropped, accepted, adptVars>>

ExceptHandler_Resume ==
    /\ opc = "except"
    /\ Publish(osid, 0, "Error", "error", ErrorMessage(exc))
    /\ opc' = IF ostep \in 1..(total_steps - 1) /\ failedStep # 0 THEN "publish" ELSE "raised"
    /\ ostep' = IF ostep \in 1..(total_steps - 1) /\ failedStep # 0 THEN ostep + 1 ELSE ostep
    /\ UNCHANGED <<osid, anaVars, invoked, failedStep, exc, adptVars>>

\* except Exception: publish the error update, raise HTTPException(500)
ExceptHandler ==
    /\ opc = "except"
    /\ Publish(osid, 0, "Error", "error", ErrorMessage(exc))
    /\ opc' = "raised"
    /\ UNCHANGED <<ostep, osid, anaVars, invoked, failedStep, exc, adptVars>>

\* ----------------------------------------------------- stream_progress
\* queue = await progress_tracker.subscribe(session_id); return EventSourceResponse(...)
Subscribe(a, s) ==
    /\ apc[a] = "idle"
    /\ subscribe(a, s)
    /\ asid' = [asid EXCEPT ![a] = s]
    /\ subAt' = [subAt EXCEPT ![a] = Len(published)]
    /\ subNo' = [subNo EXCEPT ![a] = 1 + Cardinality({b \in Adapters : subNo[b] # 0})]
    /\ apc' = [apc EXCEPT ![a] = "subscribed"]
    /\ UNCHANGED <<progress_data, orchVars, accepted, keep_alive_count,
                   forwarded, lastYield, idleRun, closedBy>>

\* the transport starts iterating event_generator()
StartStream(a) ==
    /\ apc[a] = "subscribed"
    /\ apc' = [apc EXCEPT ![a] = "waiting"]
    /\ keep_alive_count' = [keep_alive_count EXCEPT ![a] = 0]
    /\ UNCHANGED <<hubVars, orchVars, accepted, asid, subAt, subNo, forwarded, lastYield,
                   idleRun, closedBy>>

\* leaving the while loop: the finally clause unsubscribes the session
Finish(a, why) ==
    /\ apc' = [apc EXCEPT ![a] = "closed"]
    /\ closedBy' = [closedBy EXCEPT ![a] = why]
    /\ unsubscribe(asid[a])

\* "Stop if completed"
StopOn(update) == update.progress_percent = 100

OnUpdate_NoReset(a) ==
    /\ apc[a] = "waiting"
    /\ queue[a] # <<>>
    /\ LET update == Head(queue[a]) IN
       /\ queue' = [queue EXCEPT ![a] = Tail(@)]
       /\ UNCHANGED keep_alive_count
       /\ forwarded' = [forwarded EXCEPT ![a] = Append(@, update)]
       /\ lastYield' = [lastYield EXCEPT ![a] = "progress"]
       /\ idleRun' = [idleRun EXCEPT ![a] = 0]
       /\ IF StopOn(update)
          THEN Finish(a, "terminal")
          ELSE UNCHANGED <<apc, closedBy, subscribers>>
    /\ UNCHANGED <<progress_data, orchVars, accepted, asid, subAt, subNo>>

\* queue.get() returned within the timeout: reset the counter, yield the
\* progress event, break when it is the last one
OnUpdate(a) ==
    /\ apc[a] = "waiting"
    /\ queue[a] # <<>>
    /\ LET update == Head(queue[a]) IN
       /\ queue' = [queue EXCEPT ![a] = Tail(@)]
       /\ keep_alive_count' = [keep_alive_count EXCEPT ![a] = 0]
       /\ forwarded' = [forwarded EXCEPT ![a] = Append(@, update)]
       /\ lastYield' = [lastYield EXCEPT ![a] = "progress"]
       /\ idleRun' = [idleRun EXCEPT ![a] = 0]
       /\ IF StopOn(update)
          THEN Finish(a, "terminal")
          ELSE UNCHANGED <<apc, closedBy, subscribers>>
    /\ UNCHANGED <<progress_data, orchVars, accepted, asid, subAt, subNo>>

OnTimeout_NoCount(a) ==
    /\ apc[a] = "waiting"
    /\ queue[a] = <<>>
    /\ idleRun' = [idleRun EXCEPT ![a] = IF @ < max_keep_alives THEN @ + 1 ELSE @]
    /\ lastYield' = [lastYield EXCEPT ![a] = "ping"]
    /\ UNCHANGED <<keep_alive_count, apc, closedBy, subscribers>>
    /\ UNCHANGED <<progress_data, queue, orchVars, accepted, asid, subAt, subNo, forwarded>>

\* asyncio.TimeoutError: count it; at max_keep_alives yield the timeout
\* signal and break, below it yield a keep-alive ping
OnTimeout(a) ==
    /\ apc[a] = "waiting"
    /\ queue[a] = <<>>
    /\ keep_alive_count' = [keep_alive_count EXCEPT ![a] = @ + 1]
    /\ idleRun' = [idleRun EXCEPT ![a] = @ + 1]
    /\ IF keep_alive_count'[a] >= max_keep_alives
       THEN /\ lastYield' = [lastYield EXCEPT ![a] = "timeout"]
            /\ Finish(a, "timeout")
       ELSE /\ lastYield' = [lastYield EXCEPT ![a] = "ping"]
            /\ UNCHANGED <<apc, closedBy, subscribers>>
    /\ UNCHANGED <<progress_data, queue, orchVars, accepted, asid, subAt, subNo, forwarded>>

\* the consumer goes away while the generator is suspended at a yield or
\* at the wait: the generator is closed and its finally clause runs
Disconnect(a) ==
    /\ apc[a] = "waiting"
    /\ Finish(a, "disconnect")
    /\ UNCHANGED <<progress_data, queue, orchVars, accepted, asid, subAt, subNo,
                   keep_alive_count, forwarded, lastYield, idleRun>>

\* the consumer goes away after stream_progress subscribed but before the
\* transport iterates event_generator(): the generator body never runs, so
\* neither does its finally clause
DisconnectBeforeStart(a) ==
    /\ apc[a] = "subscribed"
    /\ apc' = [apc EXCEPT ![a] = "closed"]
    /\ closedBy' = [closedBy EXCEPT ![a] = "disconnect"]
    /\ UNCHANGED <<hubVars, orchVars, accepted, asid, subAt, subNo,
                   keep_alive_count, forwarded, lastYield, idleRun>>

\* ------------------------------------------------------------------ Next
AdapterStep(a) ==
    \/ StartStream(a)
    \/ OnUpdate(a)
    \/ OnTimeout(a)

Next ==
    \/ SetupOk
    \/ SetupRaises
    \/ PublishRunning
    \/ CollaboratorReturns
    \/ CollaboratorRaises
    \/ AnalyticsOk
    \/ AnalyticsRaises
    \/ PublishDone
    \/ StoreOk
    \/ StoreRaises
    \/ ExceptHandler
    \/ \E a \in Adapters, s \in Sessions : Subscribe(a, s)
    \/ \E a \in Adapters : StartStream(a)
    \/ \E a \in Adapters : OnUpdate(a)
    \/ \E a \in Adapters : OnTimeout(a)
    \/ \E a \in Adapters : Disconnect(a)
    \/ \E a \in Adapters : DisconnectBeforeStart(a)

Spec == Init /\ [][Next]_vars

\* Several stream requests: every adapter may subscribe.  The run is taken
\* up where steps 1..6 have returned and nobody has subscribed yet, a state
\* Spec reaches, so that the adapters interleave with the publications of
\* steps 7 and 8, of done and of error.
RunningUpdate(i) == MkUpdate(i, total_steps, AgentName(i), "running", <<StepMessage(i)>>)

MultiInit ==
    /\ osid \in Sessions
    /\ progress_data = [s \in Sessions |-> IF s = osid THEN RunningUpdate(6) ELSE NoUpdate]
    /\ subscribers = [s \in Sessions |-> 0]
    /\ queue = [a \in Adapters |-> <<>>]
    /\ opc = "publish"
    /\ ostep = 7
    /\ apc = [a \in Adapters |-> "idle"]
    /\ asid = [a \in Adapters |-> 0]
    /\ subAt = [a \in Adapters |-> 0]
    /\ subNo = [a \in Adapters |-> 0]
    /\ keep_alive_count = [a \in Adapters |-> 0]
    /\ published = [i \in 1..6 |-> RunningUpdate(i)]
    /\ invoked = [i \in 1..6 |-> i]
    /\ failedStep = 0
    /\ exc = ""
    /\ dropped = {RunningUpdate(i) : i \in 1..6}
    /\ scenario = 0
    /\ reach_string = <<>>
    /\ reach_analytics = NoResult
    /\ NoPlanData
    /\ accepted = [a \in Adapters |-> <<>>]
    /\ forwarded = [a \in Adapters |-> <<>>]
    /\ lastYield = [a \in Adapters |-> "none"]
    /\ idleRun = [a \in Adapters |-> 0]
    /\ closedBy = [a \in Adapters |-> "open"]

MultiNext ==
    \/ PublishRunning
    \/ CollaboratorReturns
    \/ CollaboratorRaises
    \/ AnalyticsOk
    \/ AnalyticsRaises
    \/ PublishDone
    \/ StoreOk
    \/ StoreRaises
    \/ ExceptHandler
    \/ \E a \in Adapters, s \in Sessions : Subscribe(a, s)
    \/ \E a \in Adapters : StartStream(a)
    \/ \E a \in Adapters : OnUpdate(a)
    \/ \E a \in Adapters : OnTimeout(a)
    \/ \E a \in Adapters : Disconnect(a)
    \/ \E a \in Adapters : DisconnectBeforeStart(a)

MultiSpec == MultiInit /\ [][MultiNext]_vars

\* The analytics loop of create_plan_with_progress over the scenarios
\* 'standard', 'aggressive', 'experimental'.  The run is taken up where
\* steps 1..7 have returned and nobody has subscribed, a state Spec reaches;
\* each scenario's reach text is an output of the performance collaborator.
ExampleReach == <<"1", "5", ",", "0", "0", "0", "-", "2", "0", ",", "0", "0", "0">>

ReachStrings == UNION {[1..n -> ReachChars] : n \in 0..MaxReachLen} \cup {ExampleReach}

\* values of profile.location: a known city, no known city, two known
\* cities (the later one of the table written first), upper case
SanFrancisco == <<"S", "a", "n", " ", "F", "r", "a", "n", "c", "i", "s", "c", "o">>

Locations ==
    {SanFrancisco,
     <<"U", "n", "k", "n", "o", "w", "n", " ", "T", "o", "w", "n">>,
     <<"P", "o", "r", "t", "l", "a", "n", "d", "-", "S", "e", "a", "t", "t", "l", "e">>,
     <<"A", "U", "S", "T", "I", "N">>}

\* values of total_budget (a float > 0) in halves: 0.5 .. MaxBudget + 0.5,
\* and 2500.0
TotalBudgets == 1..(2 * MaxBudget + 1) \cup {5000}

\* reach texts and budgets the collaborators hand to the analytics loop
LoopReachTexts == {<<"-">>, <<"1">>, <<"2", "-", "1">>, <<",">>}

LoopBudgets == {1, 5000}

ReachInit ==
    /\ osid \in Sessions
    /\ progress_data = [s \in Sessions |-> IF s = osid THEN RunningUpdate(7) ELSE NoUpdate]
    /\ subscribers = [s \in Sessions |-> 0]
    /\ queue = [a \in Adapters |-> <<>>]
    /\ opc = "analytics"
    /\ ostep = 8
    /\ apc = [a \in Adapters |-> "off"]
    /\ asid = [a \in Adapters |-> 0]
    /\ subAt = [a \in Adapters |-> 0]
    /\ subNo = [a \in Adapters |-> 0]
    /\ keep_alive_count = [a \in Adapters |-> 0]
    /\ published = [i \in 1..7 |-> RunningUpdate(i)]
    /\ invoked = [i \in 1..7 |-> i]
    /\ failedStep = 0
    /\ exc = ""
    /\ dropped = {RunningUpdate(i) : i \in 1..7}
    /\ scenario = 1
    /\ reach_string = <<>>
    /\ reach_analytics = NoResult
    /\ location \in Locations
    /\ is_local \in BOOLEAN
    /\ scenario_budget = 0
    /\ budget_scaling = NoResult
    /\ scenarios_dict \in [ScenarioIds -> LoopBudgets]
    /\ performance_dict \in [ScenarioIds -> {Prediction(t) : t \in LoopReachTexts}]
    /\ performance = performance_dict
    /\ accepted = [a \in Adapters |-> <<>>]
    /\ forwarded = [a \in Adapters |-> <<>>]
    /\ lastYield = [a \in Adapters |-> "none"]
    /\ idleRun = [a \in Adapters |-> 0]
    /\ closedBy = [a \in Adapters |-> "open"]

\* the plan whose total_budget the iteration for scenario i reads:
\* scenarios_dict[f"{scenario_name}_plan"]
PlanOf_Standard(i) == 1

PlanOf(i) == i

\* PerformanceSet(standard=PerformancePrediction(**performance_dict['standard']),
\* ...): each prediction is built from the fields the schema declares
Reconstruct(pd) ==
    [i \in ScenarioIds |->
        [reach |-> pd[i].reach,
         reach_analytics |-> pd[i].reach_analytics,
         budget_scaling |-> pd[i].budget_scaling]]

\* one iteration of the loop over the scenarios: calculate_reach_percentage
\* on the scenario's reach text, calculate_budget_scaling on its plan's
\* budget, both stored in performance_dict; after the last iteration the
\* PerformanceSet is built again.  An exception leaves the try body for the
\* except clause
AnalyzeScenario ==
    /\ opc = "analytics"
    /\ scenario \in ScenarioIds
    /\ LET scenario_perf == performance_dict[scenario]
           budget == scenarios_dict[PlanOf(scenario)]
       IN
       /\ reach_string' = scenario_perf.reach
       /\ scenario_budget' = budget
       /\ \E r \in calculate_reach_percentage(scenario_perf.reach, location, is_local) :
             /\ reach_analytics' = r
             /\ IF r.kind = "ValueError"
                THEN /\ opc' = "except"
                     /\ exc' = "invalid literal for int() with base 10: ''"
                     /\ UNCHANGED <<scenario, budget_scaling, performance_dict, performance>>
                ELSE \E b \in calculate_budget_scaling(IntOfHalves(budget),
                                                       r.reach_min, r.reach_max) :
                        /\ budget_scaling' = b
                        /\ IF b.kind = "ZeroDivisionError"
                           THEN /\ opc' = "except"
                                /\ exc' = "division by zero"
                                /\ performance_dict' =
                                       [performance_dict EXCEPT
                                           ![scenario].reach_analytics = r]
                                /\ UNCHANGED <<scenario, performance>>
                           ELSE /\ performance_dict' =
                                       [performance_dict EXCEPT
                                           ![scenario].reach_analytics = r,
                                           ![scenario].budget_scaling = b]
                                /\ IF scenario = Len(ScenarioNames)
                                   THEN /\ performance' = Reconstruct(performance_dict')
                                        /\ opc' = "publish"
                                        /\ scenario' = 0
                                   ELSE /\ opc' = "analytics"
                                        /\ scenario' = scenario + 1
                                        /\ UNCHANGED performance
                                /\ UNCHANGED exc
    /\ UNCHANGED <<hubVars, ostep, osid, published, invoked, failedStep, dropped,
                   location, is_local, scenarios_dict, accepted, adptVars>>

\* steps after the performance collaborator returned, up to the end of the run
ReachNext ==
    \/ AnalyzeScenario
    \/ PublishRunning
    \/ CollaboratorReturns
    \/ CollaboratorRaises
    \/ PublishDone
    \/ StoreOk
    \/ StoreRaises
    \/ ExceptHandler

ReachSpec == ReachInit /\ [][ReachNext]_vars

\* calculate_reach_percentage and calculate_budget_scaling on their own:
\* the reach text and the profile are drawn at Init, the plan's budget when
\* it is read; each call is one step
AnalyticsInit ==
    /\ progress_data = [s \in Sessions |-> NoUpdate]
    /\ subscribers = [s \in Sessions |-> 0]
    /\ queue = [a \in Adapters |-> <<>>]
    /\ opc = "start"
    /\ ostep = 0
    /\ osid = 1
    /\ apc = [a \in Adapters |-> "off"]
    /\ asid = [a \in Adapters |-> 0]
    /\ subAt = [a \in Adapters |-> 0]
    /\ subNo = [a \in Adapters |-> 0]
    /\ keep_alive_count = [a \in Adapters |-> 0]
    /\ published = <<>>
    /\ invoked = <<>>
    /\ failedStep = 0
    /\ exc = ""
    /\ dropped = {}
    /\ scenario = 0
    /\ reach_string \in ReachStrings
    /\ reach_analytics = NoResult
    /\ location \in Locations
    /\ is_local \in BOOLEAN
    /\ scenario_budget = 0
    /\ budget_scaling = NoResult
    /\ scenarios_dict = [i \in ScenarioIds |-> 0]
    /\ performance_dict = [i \in ScenarioIds |-> Prediction(<<>>)]
    /\ performance = [i \in ScenarioIds |-> Prediction(<<>>)]
    /\ accepted = [a \in Adapters |-> <<>>]
    /\ forwarded = [a \in Adapters |-> <<>>]
    /\ lastYield = [a \in Adapters |-> "none"]
    /\ idleRun = [a \in Adapters |-> 0]
    /\ closedBy = [a \in Adapters |-> "open"]

\* reach_analytics = calculate_reach_percentage(reach, location, is_local)
CallReachPercentage ==
    /\ reach_analytics = NoResult
    /\ reach_analytics' \in calculate_reach_percentage(reach_string, location, is_local)
    /\ UNCHANGED <<hubVars, opc, ostep, osid, published, invoked, failedStep, exc, dropped,
                   scenario, reach_string, location, is_local, scenario_budget,
                   budget_scaling, scenarios_dict, performance_dict, performance,
                   accepted, adptVars>>

\* scenario_budget = scenarios_dict[scenario_plan_key]['total_budget']
\* budget_scaling = calculate_budget_scaling(int(scenario_budget),
\*     reach_analytics['reach_min'], reach_analytics['reach_max'], 2.0)
CallBudgetScaling ==
    /\ reach_analytics.kind = "dict"
    /\ budget_scaling = NoResult
    /\ \E total_budget \in TotalBudgets :
          /\ scenario_budget' = total_budget
          /\ budget_scaling' \in calculate_budget_scaling(IntOfHalves(total_budget),
                                     reach_analytics.reach_min, reach_analytics.reach_max)
    /\ UNCHANGED <<hubVars, opc, ostep, osid, published, invoked, failedStep, exc, dropped,
                   scenario, reach_string, reach_analytics, location, is_local,
                   scenarios_dict, performance_dict, performance,
                   accepted, adptVars>>

AnalyticsNext ==
    \/ CallReachPercentage
    \/ CallBudgetScaling

AnalyticsSpec == AnalyticsInit /\ [][AnalyticsNext]_vars

\* The hub under any callers: stream requests for any session, and
\* update_progress calls for any session, as concurrent
\* create_plan_with_progress requests make them.  No run is followed here,
\* so the run's history (published, dropped) stays empty.
HubInit ==
    /\ progress_data = [s \in Sessions |-> NoUpdate]
    /\ subscribers = [s \in Sessions |-> 0]
    /\ queue = [a \in Adapters |-> <<>>]
    /\ opc = "start"
    /\ ostep = 0
    /\ osid = 1
    /\ apc = [a \in Adapters |-> "idle"]
    /\ asid = [a \in Adapters |-> 0]
    /\ subAt = [a \in Adapters |-> 0]
    /\ subNo = [a \in Adapters |-> 0]
    /\ keep_alive_count = [a \in Adapters |-> 0]
    /\ published = <<>>
    /\ invoked = <<>>
    /\ failedStep = 0
    /\ exc = ""
    /\ dropped = {}
    /\ scenario = 0
    /\ reach_string = <<>>
    /\ reach_analytics = NoResult
    /\ NoPlanData
    /\ accepted = [a \in Adapters |-> <<>>]
    /\ forwarded = [a \in Adapters |-> <<>>]
    /\ lastYield = [a \in Adapters |-> "none"]
    /\ idleRun = [a \in Adapters |-> 0]
    /\ closedBy = [a \in Adapters |-> "open"]

\* steps whose running update is published here: the first one and the
\* last one, which carries 100 percent
HubSteps == {1, total_steps}

\* await progress_tracker.update_progress(session_id, step, total_steps,
\* agent, "running", message) for any session; a queue accepts at most
\* MaxHubUpdates updates
UpdateProgress(s, step) ==
    /\ subscribers[s] # 0 => Len(accepted[subscribers[s]]) < MaxHubUpdates
    /\ update_progress(s, step, total_steps, AgentName(step), "running",
                       <<StepMessage(step)>>)
    /\ accepted' = [a \in Adapters |->
                      IF subscribers[s] = a
                      THEN Append(accepted[a], RunningUpdate(step))
                      ELSE accepted[a]]
    /\ UNCHANGED <<orchVars, adptVars>>

HubNext ==
    \/ \E s \in Sessions, step \in HubSteps : UpdateProgress(s, step)
    \/ \E a \in Adapters, s \in Sessions : Subscribe(a, s)
    \/ \E a \in Adapters : StartStream(a)
    \/ \E a \in Adapters : OnUpdate(a)
    \/ \E a \in Adapters : Disconnect(a)

HubSpec == HubInit /\ [][HubNext]_vars

\* the event loop keeps scheduling a started event_generator
LiveSpec == Init /\ [][Next]_vars /\ \A a \in Adapters : WF_vars(AdapterStep(a))

TypeOK ==
    /\ opc \in {"start", "publish", "invoke", "analytics", "complete", "store",
                "returned", "except", "raised"}
    /\ ostep \in 0..total_steps
    /\ \A a \in Adapters : keep_alive_count[a] \in 0..max_keep_alives
    /\ \A s \in Sessions : subscribers[s] \in Adapters \cup {0}

\* ------------------------------------------------------- history helpers
CountStatus(seq, st) == Cardinality({i \in 1..Len(seq) : seq[i].status = st})

NonDecreasing(seq) ==
    \A i, j \in 1..Len(seq) :
        i < j => seq[i].progress_percent <= seq[j].progress_percent

\* the adapter's queue was registered before the step-1 update was published
AttachedFromStart(a) ==
    /\ accepted[a] # <<>>
    /\ accepted[a][1].step = 1
    /\ accepted[a][1].status = "running"

RunEnded == opc \in {"returned", "raised"}

\* ----------------------------------------------------------------- C1
\* C1 (as claimed): the progress_percent values of the events of a run
\* delivered to an attached subscriber never decrease, whatever the status
\* of the events.  The except clause publishes step 0, i.e. 0 percent.
C1_ProgressNonDecreasing ==
    \A a \in Adapters : NonDecreasing(forwarded[a])

\* ----------------------------------------------------------------- C2
\* C2 (as claimed): when all 8 collaborators succeeded, the ended run has
\* published exactly one done event, it carries 100 percent and it is the
\* last event published.
C2_SuccessOneDoneLast ==
    (RunEnded /\ failedStep = 0 /\ Len(invoked) = total_steps) =>
        /\ CountStatus(published, "done") = 1
        /\ Last(published).status = "done"
        /\ Last(published).progress_percent = 100

\* ----------------------------------------------------------------- C3
\* C3: once a step collaborator has raised, the run publishes at most one
\* error event, nothing after it, and exactly one by the time it has ended.
C3_FailureOneErrorLast ==
    failedStep # 0 =>
        /\ CountStatus(published, "error") <= 1
        /\ \A i \in 1..Len(published) :
              published[i].status = "error" => i = Len(published)
        /\ RunEnded => CountStatus(published, "error") = 1

C3_Witness ==
    /\ failedStep = 3
    /\ opc = "raised"
    /\ Len(published) = 4
    /\ Last(published).status = "error"

\* ----------------------------------------------------------------- C4
\* C4: once the collaborator of step k has raised, the collaborators invoked
\* in the run are exactly 1..k, each once (no later step, no retry), and the
\* run is in its except clause or has raised: it never returns a result.
C4_FailureHaltsPipeline ==
    failedStep # 0 =>
        /\ invoked = [i \in 1..failedStep |-> i]
        /\ opc \in {"except", "raised"}

C4_Witness ==
    /\ failedStep = 5
    /\ opc = "raised"
    /\ invoked = <<1, 2, 3, 4, 5>>

\* ----------------------------------------------------------------- C5
\* C5 (as claimed): an adapter attached before step 1 of a run that returned
\* its result closed its stream on the done event, on no earlier event.
C5_ClosesOnDone ==
    \A a \in Adapters :
        (opc = "returned" /\ AttachedFromStart(a) /\ closedBy[a] = "terminal") =>
            Last(forwarded[a]).status = "done"

\* ----------------------------------------------------------------- C6
\* C6 (as claimed): an adapter that has forwarded an error event has closed
\* its stream and the error event is the last item it yielded.
C6_ClosesOnError ==
    \A a \in Adapters :
        (forwarded[a] # <<>> /\ Last(forwarded[a]).status = "error") =>
            /\ apc[a] = "closed"
            /\ lastYield[a] = "progress"

\* ----------------------------------------------------------------- C7
\* C7: the idle counter equals the number of idle timeouts since the last
\* received event; the timeout signal is yielded and the stream closed by it
\* exactly when that number is 5; below 5 the last item yielded after an idle
\* timeout is a keep-alive; the number never exceeds 5.
C7_IdleTimeoutPolicy ==
    \A a \in Adapters :
        /\ keep_alive_count[a] = idleRun[a]
        /\ idleRun[a] <= max_keep_alives
        /\ (lastYield[a] = "timeout") <=> (idleRun[a] = max_keep_alives)
        /\ (closedBy[a] = "timeout") <=> (idleRun[a] = max_keep_alives)
        /\ idleRun[a] \in 1..(max_keep_alives - 1) => lastYield[a] = "ping"
        /\ (idleRun[a] = 0 /\ apc[a] \in {"waiting", "closed"}) =>
              lastYield[a] \in {"none", "progress"}

C7_Witness ==
    \E a \in Adapters :
        /\ closedBy[a] = "timeout"
        /\ Len(forwarded[a]) >= 2
        /\ idleRun[a] = max_keep_alives

\* ----------------------------------------------------------------- C8
\* C8: under weak fairness of the adapter's steps, every started stream
\* eventually ends.
C8_StreamTerminates ==
    \A a \in Adapters : (apc[a] = "waiting") ~> (apc[a] = "closed")

C8_Witness ==
    \E a \in Adapters :
        /\ apc[a] = "closed"
        /\ closedBy[a] = "timeout"
        /\ opc = "raised"
        /\ queue[a] = <<>>

\* ----------------------------------------------------------------- C9
\* C9: the events an adapter has dequeued, followed by those still in its
\* queue, are exactly the events published for its session while its queue
\* was the registered subscriber, in publication order.
C9_FifoDelivery ==
    \A a \in Adapters : forwarded[a] \o queue[a] = accepted[a]

C9_Witness ==
    \E a \in Adapters :
        /\ Len(forwarded[a]) >= 2
        /\ Len(queue[a]) >= 2
        /\ Len(published) > Len(accepted[a])

\* ---------------------------------------------------------------- C10
\* C10: whenever create_plan_with_progress is at an update_progress call,
\* the call can complete at once, whatever the state of the hub and of the
\* subscriber's queue.
C10_PublishNeverBlocks ==
    /\ opc = "publish" => ENABLED PublishRunning
    /\ opc = "complete" => ENABLED PublishDone
    /\ opc = "except" => ENABLED ExceptHandler

C10_Witness ==
    /\ opc = "publish"
    /\ subscribers[osid] # 0
    /\ apc[subscribers[osid]] = "subscribed"
    /\ Len(queue[subscribers[osid]]) >= 3

\* --------------------------------------------------------------- more helpers
InSeq(x, seq) == \E i \in 1..Len(seq) : seq[i] = x

IsPrefix(p, seq) == Len(p) <= Len(seq) /\ SubSeq(seq, 1, Len(p)) = p

\* what has been put into the adapter's queue so far, in order
Delivered(a) == forwarded[a] \o queue[a]

RunningOf(seq) == SelectSeq(seq, LAMBDA u : u.status = "running")

\* ---------------------------------------------------------------- C11
\* C11: an update published while no queue is registered for the session
\* becomes the session's latest snapshot, registers no queue, changes no
\* queue, and is never in the queue of any subscriber, earlier or later.
C11_DroppedWithoutSubscriber ==
    /\ [](published # <<>> => get_progress(osid) = Last(published))
    /\ [](\A a \in Adapters : \A u \in dropped : ~InSeq(u, Delivered(a)))
    /\ [][(published' # published /\ subscribers[osid] = 0) =>
             /\ progress_data'[osid] = Last(published')
             /\ subscribers' = subscribers
             /\ queue' = queue]_vars

C11_Witness ==
    \E a \in Adapters :
        /\ asid[a] = osid
        /\ Cardinality(dropped) >= 2
        /\ Len(forwarded[a]) >= 2
        /\ get_progress(osid) \in dropped

\* ---------------------------------------------------------------- C13
\* C13: what has been put into an adapter's queue is a prefix of the updates
\* published for its session after it subscribed; so the queue is empty until
\* the first update_progress after subscribe and no earlier update is replayed.
C13_NoReplayOnSubscribe ==
    \A a \in Adapters :
        /\ asid[a] = osid =>
              IsPrefix(Delivered(a), SubSeq(published, subAt[a] + 1, Len(published)))
        /\ asid[a] # osid => Delivered(a) = <<>>

C13_Witness ==
    \E a \in Adapters :
        /\ asid[a] = osid
        /\ apc[a] = "waiting"
        /\ subAt[a] >= 3
        /\ Len(published) = subAt[a]
        /\ get_progress(osid) # NoUpdate
        /\ queue[a] = <<>>

\* ---------------------------------------------------------------- C14
\* C14 (as claimed): once the stream of an adapter has ended, the hub holds
\* no subscriber entry for its session (single adapter).
C14_EndedStreamUnsubscribed ==
    \A a \in Adapters : apc[a] = "closed" => subscribers[asid[a]] = 0

\* ---------------------------------------------------------------- C15
\* C15: after an adapter of the run's session has ended its stream, the
\* pipeline is never held up: at every position its next step can be taken,
\* the collaborators invoked are 1, 2, ... in order, and a run that returns
\* has invoked all 8 and published done.
C15_RunSurvivesUnsubscribe ==
    (\E a \in Adapters : apc[a] = "closed" /\ asid[a] = osid) =>
        /\ invoked = [i \in 1..Len(invoked) |-> i]
        /\ opc = "start" => ENABLED SetupOk
        /\ opc = "publish" => ENABLED PublishRunning
        /\ opc = "invoke" => ENABLED CollaboratorReturns
        /\ opc = "analytics" => ENABLED AnalyticsOk
        /\ opc = "complete" => ENABLED PublishDone
        /\ opc = "store" => ENABLED StoreOk
        /\ opc = "except" => ENABLED ExceptHandler
        /\ opc = "returned" =>
              /\ Len(invoked) = total_steps
              /\ Last(published).status = "done"

C15_Witness ==
    \E a \in Adapters :
        /\ opc = "returned"
        /\ asid[a] = osid
        /\ closedBy[a] \in {"disconnect", "timeout"}
        /\ subscribers[osid] = 0
        /\ Len(accepted[a]) \in 1..4

\* ---------------------------------------------------------------- C16
\* C16: the collaborators invoked are 1, 2, ... in order; the running events
\* published are those of steps 1, 2, ... in order; the running event of a
\* step is published before its collaborator is invoked; only the last
\* collaborator invoked can have raised.
C16_StepsSequential ==
    LET running == RunningOf(published) IN
    /\ invoked = [i \in 1..Len(invoked) |-> i]
    /\ \A i \in 1..Len(running) :
          running[i].step = i /\ running[i].agent_name = AgentName(i)
    /\ Len(invoked) <= Len(running)
    /\ Len(running) <= Len(invoked) + 1
    /\ opc = "invoke" => (Len(running) = Len(invoked) + 1 /\ ostep = Len(running))
    /\ failedStep # 0 => failedStep = Len(invoked)

C16_Witness ==
    /\ opc = "complete"
    /\ invoked = <<1, 2, 3, 4, 5, 6, 7, 8>>
    /\ Len(RunningOf(published)) = total_steps

\* ---------------------------------------------------------------- C17
\* C17 (as claimed): the error event of a run whose collaborator raised
\* carries the progress_percent of the event published just before it.
C17_ErrorKeepsProgress ==
    failedStep # 0 =>
        \A i \in 2..Len(published) :
            published[i].status = "error" =>
                published[i].progress_percent = published[i - 1].progress_percent

\* ---------------------------------------------------------------- C18
\* C18 (as claimed): the error event of a run whose collaborator raised has
\* the step and the agent name of the failing step, and its message contains
\* the message of the exception.
C18_ErrorNamesFailingStep ==
    failedStep # 0 =>
        \A i \in 1..Len(published) :
            published[i].status = "error" =>
                /\ published[i].step = failedStep
                /\ published[i].agent_name = AgentName(failedStep)
                /\ InSeq(exc, published[i].message)

\* ---------------------------------------------------------------- C19
\* a queue registered before step 1 and still registered when the run ended
AttachedWholeRun(a) ==
    /\ RunEnded
    /\ AttachedFromStart(a)
    /\ subscribers[osid] = a

\* C19 (as claimed): when the collaborator of step k raised, such a
\* subscriber was delivered k-1 running events and then one error event.
C19_KMinusOneRunning ==
    \A a \in Adapters :
        (failedStep # 0 /\ AttachedWholeRun(a)) =>
            /\ Len(Delivered(a)) = failedStep
            /\ Len(RunningOf(Delivered(a))) = failedStep - 1
            /\ Last(Delivered(a)).status = "error"

\* C19 (amended): it was delivered the k running events of steps 1..k and
\* then exactly one error event.
C19_KRunningThenError ==
    \A a \in Adapters :
        (failedStep # 0 /\ AttachedWholeRun(a)) =>
            /\ Len(Delivered(a)) = failedStep + 1
            /\ \A i \in 1..failedStep :
                  Delivered(a)[i].status = "running" /\ Delivered(a)[i].step = i
            /\ Last(Delivered(a)).status = "error"

C19_Witness ==
    \E a \in Adapters :
        /\ failedStep = 5
        /\ AttachedWholeRun(a)
        /\ Len(forwarded[a]) = 6

\* ---------------------------------------------------------------- C12
\* C12: of two adapters that subscribed to the run's session, the one that
\* subscribed first is delivered nothing published after the second
\* subscribe, and the second, while its queue is still registered, has been
\* delivered every update published since its subscribe.
C12_SecondSubscriberOnly ==
    \A a, b \in Adapters :
        (asid[a] = osid /\ asid[b] = osid /\ subNo[a] # 0 /\ subNo[a] < subNo[b]) =>
            /\ IsPrefix(Delivered(a), SubSeq(published, subAt[a] + 1, subAt[b]))
            /\ subscribers[osid] = b =>
                  Delivered(b) = SubSeq(published, subAt[b] + 1, Len(published))

C12_Witness ==
    \E a, b \in Adapters :
        /\ asid[a] = osid /\ asid[b] = osid
        /\ subNo[a] = 1 /\ subNo[b] = 2
        /\ subscribers[osid] = b
        /\ Len(Delivered(a)) = 1
        /\ Len(Delivered(b)) >= 2

\* ---------------------------------------------------------------- C20
\* C20 (as claimed): calculate_reach_percentage returns a result for every
\* reach text, and the analytics loop never sends the run to its except
\* clause.
C20_ReachNeverRaises ==
    /\ reach_analytics.kind # "ValueError"
    /\ opc \notin {"except", "raised"}

\* ------------------------------------------------- analytics helpers
\* the numeric tokens of a reach text: the runs of digits and commas that
\* hold a digit
NumericTokens(text) ==
    SelectSeq(FindAll(text), LAMBDA tok : \E i \in 1..Len(tok) : IsDigit(tok[i]))

\* the integer a numeric token denotes
TokenValue(tok) == IntOf(RemoveCommas(tok))

\* v is a whole number of units nearest to n / d
IsNearest(v, n, d) ==
    /\ 2 * (n - v * d) <= d
    /\ 2 * (v * d - n) <= d

FullDict(r) == r.kind = "dict" /\ "target_population" \in DOMAIN r

\* ---------------------------------------------------------------- C21
\* C21 (as claimed): for a reach text with no digit and no comma,
\* calculate_reach_percentage returns the degenerate result (reach_min =
\* reach_max = 0, percentage unavailable) and raises nothing; for a text with
\* exactly one numeric token it returns that token's value as reach_min and
\* as reach_max.
C21_ZeroOrOneToken ==
    reach_analytics # NoResult =>
        /\ (\A i \in 1..Len(reach_string) : ~IsTokenChar(reach_string[i])) =>
              /\ reach_analytics.kind = "dict"
              /\ reach_analytics.reach_min = 0
              /\ reach_analytics.reach_max = 0
              /\ reach_analytics.percentage = "Unknown"
        /\ Len(NumericTokens(reach_string)) = 1 =>
              /\ reach_analytics.kind = "dict"
              /\ reach_analytics.reach_min = TokenValue(NumericTokens(reach_string)[1])
              /\ reach_analytics.reach_max = TokenValue(NumericTokens(reach_string)[1])

\* ---------------------------------------------------------------- C22
\* C22 (as claimed): every result of calculate_reach_percentage has
\* 0 <= reach_min <= reach_max.
C22_ReachOrdered ==
    reach_analytics.kind = "dict" =>
        /\ 0 <= reach_analytics.reach_min
        /\ reach_analytics.reach_min <= reach_analytics.reach_max

\* ---------------------------------------------------------------- C23
\* C23: in every full result, target_population is the population of the
\* first table entry whose city is in the lower-cased location, or 500,000
\* (local) / 10,000,000 (not local) when there is none, taken times 0.25 and
\* truncated when local; it is > 0; percentage_min and percentage_max are
\* reach / target_population * 100 to the nearest tenth; "15,000-20,000",
\* San Francisco, local gives 300,000, 5.0 and 6.7.
C23_TargetPopulation ==
    FullDict(reach_analytics) =>
        LET tp == reach_analytics.target_population
            hits == {i \in 1..Len(population_estimates) :
                        IsSubstring(population_estimates[i].city, lower(location))}
            scaled(pop) == IF is_local
                           THEN 4 * tp <= pop /\ pop < 4 * (tp + 1)
                           ELSE tp = pop
        IN  /\ \A i \in hits :
                   (\A j \in hits : i <= j) => scaled(population_estimates[i].pop)
            /\ hits = {} => scaled(IF is_local THEN 500000 ELSE 10000000)
            /\ tp > 0
            /\ IsNearest(reach_analytics.percentage_min,
                         reach_analytics.reach_min * 1000, tp)
            /\ IsNearest(reach_analytics.percentage_max,
                         reach_analytics.reach_max * 1000, tp)
            /\ (reach_string = ExampleReach /\ location = SanFrancisco /\ is_local) =>
                   /\ tp = 300000
                   /\ reach_analytics.percentage_min = 50
                   /\ reach_analytics.percentage_max = 67

C23_Witness ==
    /\ reach_string = ExampleReach
    /\ location = SanFrancisco
    /\ is_local
    /\ FullDict(reach_analytics)
    /\ reach_analytics.reach_min = 15000
    /\ reach_analytics.reach_max = 20000
    /\ reach_analytics.target_population = 300000

\* ---------------------------------------------------------------- C24
\* what calculate_budget_scaling was called with
CurrentBudget == IntOfHalves(scenario_budget)

\* the two bounds a reach range f"{lo:,}-{hi:,}" shows
RangeBounds(range) == [i \in 1..Len(FindAll(range)) |-> TokenValue(FindAll(range)[i])]

BudgetIncreaseAndTargets ==
    /\ budget_scaling.budget_increase =
           budget_scaling.recommended_budget - budget_scaling.current_budget
    /\ budget_scaling.current_budget = CurrentBudget
    /\ RangeBounds(budget_scaling.target_reach_range) =
           <<target_multiplier * reach_analytics.reach_min,
             target_multiplier * reach_analytics.reach_max>>

\* C24 (as claimed): for current_budget > 0, recommended_budget is
\* current_budget * 2^1.3 rounded to the nearest integer, budget_increase is
\* recommended_budget - current_budget, and the target reach bounds are
\* twice the current ones.
C24_RecommendedNearest ==
    (budget_scaling.kind = "dict" /\ CurrentBudget > 0) =>
        /\ IsNearest(budget_scaling.recommended_budget,
                     CurrentBudget * budget_multiplier_num, budget_multiplier_den)
        /\ BudgetIncreaseAndTargets

\* C24 (amended): recommended_budget is current_budget * 2^1.3 truncated to
\* an integer: recommended_budget <= current_budget * 2^1.3 <
\* recommended_budget + 1 (2500 gives 6155); the rest as claimed.
C24_RecommendedTruncated ==
    (budget_scaling.kind = "dict" /\ CurrentBudget > 0) =>
        /\ budget_scaling.recommended_budget * budget_multiplier_den
               <= CurrentBudget * budget_multiplier_num
        /\ CurrentBudget * budget_multiplier_num
               < (budget_scaling.recommended_budget + 1) * budget_multiplier_den
        /\ CurrentBudget = 2500 => budget_scaling.recommended_budget = 6155
        /\ BudgetIncreaseAndTargets

C24_Witness ==
    /\ CurrentBudget = 2500
    /\ reach_string = ExampleReach
    /\ budget_scaling.kind = "dict"
    /\ budget_scaling.recommended_budget = 6155
    /\ budget_scaling.budget_increase = 3655
    /\ RangeBounds(budget_scaling.target_reach_range) = <<30000, 40000>>

\* ---------------------------------------------------------------- C25
\* C25: for every current_budget >= 0 and reach bounds >= 0,
\* calculate_budget_scaling returns its dict (no division by zero); when
\* both reach bounds are 0, current_cost_per_reach, new_cost_per_reach and
\* efficiency_change_percent are 0.
C25_ScalingTotal ==
    budget_scaling # NoResult =>
        /\ budget_scaling.kind = "dict"
        /\ (reach_analytics.reach_min = 0 /\ reach_analytics.reach_max = 0) =>
              /\ budget_scaling.current_cost_per_reach = 0
              /\ budget_scaling.new_cost_per_reach = 0
              /\ budget_scaling.efficiency_change_percent = 0

C25_Witness ==
    /\ budget_scaling.kind = "dict"
    /\ CurrentBudget = 0
    /\ reach_analytics.reach_min = 0
    /\ reach_analytics.reach_max = 0
    /\ budget_scaling.recommended_budget = 0
    /\ budget_scaling.current_cost_per_reach = 0

\* ---------------------------------------------------------------- C26
\* the variant carries a reach_analytics and a budget_scaling computed from
\* its own reach text and from the total_budget of its own plan
CarriesOwnAnalytics(pred, total_budget) ==
    /\ pred.reach_analytics \in
           calculate_reach_percentage(pred.reach, location, is_local)
    /\ pred.reach_analytics.kind = "dict"
    /\ pred.budget_scaling \in
           calculate_budget_scaling(IntOfHalves(total_budget),
                                    pred.reach_analytics.reach_min,
                                    pred.reach_analytics.reach_max)
    /\ pred.budget_scaling.kind = "dict"

\* C26: in a run that returns its result, each of the three variants of the
\* result's performance carries such analytics; analytics exist only after
\* the performance collaborator (step 7) returned, and all three variants
\* carry theirs before the step-8 running event is published.
C26_VariantsCarryAnalytics ==
    /\ opc = "returned" =>
          \A i \in ScenarioIds : CarriesOwnAnalytics(performance[i], scenarios_dict[i])
    /\ (\E i \in ScenarioIds : performance_dict[i].reach_analytics # EmptyDict) =>
          (InSeq(7, invoked) /\ failedStep # 7)
    /\ (\E k \in 1..Len(published) : published[k].step = total_steps) =>
          \A i \in ScenarioIds : CarriesOwnAnalytics(performance[i], scenarios_dict[i])

C26_Witness ==
    /\ opc = "returned"
    /\ performance[1].reach = <<"2", "-", "1">>
    /\ performance[2].reach = <<"-">>
    /\ performance[3].reach = <<"1">>
    /\ performance[1].budget_scaling.recommended_budget = 6155
    /\ performance[2].budget_scaling.current_budget = 0
    /\ performance[3].budget_scaling.recommended_budget = 6155
    /\ performance[3].reach_analytics.reach_max = 1

\* ---------------------------------------------------------------- C27
\* C27 (as claimed): the queue registered for a session never holds more
\* than one undelivered event.
C27_SingleSlot ==
    \A s \in Sessions :
        subscribers[s] # 0 => Len(queue[subscribers[s]]) <= 1

\* C27 (amended): the queue is an unbounded FIFO: it holds every event put
\* into it that its adapter has not dequeued yet, however many these are.
C27_UnboundedChannel ==
    \A a \in Adapters :
        /\ Len(queue[a]) = Len(accepted[a]) - Len(forwarded[a])
        /\ queue[a] = SubSeq(accepted[a], Len(forwarded[a]) + 1, Len(accepted[a]))

C27_Witness ==
    \E a \in Adapters :
        /\ subscribers[osid] = a
        /\ apc[a] = "subscribed"
        /\ opc = "returned"
        /\ Len(queue[a]) = total_steps + 1

\* ---------------------------------------------------------------- C28
\* b is the adapter that subscribed last to its session and its stream has
\* not ended
LatestOpen(b) ==
    /\ asid[b] # 0
    /\ apc[b] \in {"subscribed", "waiting"}
    /\ \A c \in Adapters : (c # b /\ asid[c] = asid[b]) => subNo[c] < subNo[b]

\* C28 (as claimed): when an adapter that subscribed earlier to the same
\* session has ended its stream, the later adapter's queue is still the one
\* registered for the session, and it has been put every update published
\* since its subscribe.
C28_SupersededEndKeepsNewer ==
    \A a, b \in Adapters :
        (a # b /\ asid[a] = asid[b] /\ apc[a] = "closed" /\ LatestOpen(b)) =>
            /\ subscribers[asid[b]] = b
            /\ asid[b] = osid =>
                  Delivered(b) = SubSeq(published, subAt[b] + 1, Len(published))

\* ---------------------------------------------------------------- C29
\* C29 (as claimed): no error event is published after a done event, and
\* once done is published the request does not fail.
C29_NoErrorAfterDone ==
    /\ \A i, j \in 1..Len(published) :
          (i < j /\ published[i].status = "done") => published[j].status # "error"
    /\ CountStatus(published, "done") >= 1 => opc \notin {"except", "raised"}

\* ---------------------------------------------------------------- C30
\* the step is a subscribe, an update_progress or an unsubscribe for session t
Unsubscribes(t) ==
    \E a \in Adapters : asid[a] = t /\ apc[a] = "waiting" /\ apc'[a] = "closed"

OperationOn(t) ==
    \/ \E a \in Adapters : Subscribe(a, t)
    \/ \E step \in HubSteps : UpdateProgress(t, step)
    \/ Unsubscribes(t)

\* the subscriber entry, the queued events and the snapshot of session s
\* are left as they were
Untouched(s) ==
    /\ subscribers'[s] = subscribers[s]
    /\ progress_data'[s] = progress_data[s]
    /\ subscribers[s] # 0 => queue'[subscribers[s]] = queue[subscribers[s]]

\* C30: a subscribe, unsubscribe or update_progress for one session leaves
\* the subscriber entry, the queued events and the snapshot of every other
\* session unchanged; an unsubscribe leaves its own session's snapshot
\* unchanged and, when the session has no subscriber, the whole subscriber
\* map too.
C30_SessionsIsolated ==
    [][/\ \A s, t \in Sessions : (s # t /\ OperationOn(t)) => Untouched(s)
       /\ \A t \in Sessions :
             Unsubscribes(t) =>
                 /\ progress_data' = progress_data
                 /\ subscribers[t] = 0 => subscribers' = subscribers]_vars

C30_Witness ==
    \E a, b \in Adapters :
        /\ a # b
        /\ subscribers[1] = a
        /\ subscribers[2] = b
        /\ Len(queue[a]) = 2
        /\ queue[b] # <<>>
        /\ progress_data[1] # progress_data[2]
        /\ apc[a] = "waiting"

====
